---- MODULE Spec2Model ----
(***************************************************************************)
(* Model of data-pipeline/glue_transform.py: the Glue/PySpark job that      *)
(* reads raw order rows, removes duplicates, normalises, validates, casts, *)
(* derives order_total, stamps audit columns and writes the result.        *)
(*                                                                         *)
(* A string is a sequence of one-character strings, so that trimming,      *)
(* casing, pattern matching, date parsing and numeric casts are computed   *)
(* character by character, as the library calls of the job compute them.   *)
(* A column value is an optional string (or, after the casts of step 9, an *)
(* optional number): NONE is Spark's null / Python's None.                 *)
(***************************************************************************)
EXTENDS Integers, Sequences, FiniteSets, TLC

VARIABLES raw_df, df, out, pc, now, started, stamp, stage

vars == <<raw_df, df, out, pc, now, started, stamp, stage>>

----------------------------------------------------------------------------
(* Characters and strings                                                  *)

LowerChars == <<"a","b","c","d","e","f","g","h","i","j","k","l","m",
                "n","o","p","q","r","s","t","u","v","w","x","y","z">>

UpperChars == <<"A","B","C","D","E","F","G","H","I","J","K","L","M",
                "N","O","P","Q","R","S","T","U","V","W","X","Y","Z">>

DigitChars == <<"0","1","2","3","4","5","6","7","8","9">>

Range(s) == {s[i] : i \in 1..Len(s)}

IndexOf(c, s) == CHOOSE i \in 1..Len(s) : s[i] = c

IsLower(c) == c \in Range(LowerChars)

IsUpper(c) == c \in Range(UpperChars)

IsLetter(c) == IsLower(c) \/ IsUpper(c)

IsDigit(c) == c \in Range(DigitChars)

DigitVal(c) == IndexOf(c, DigitChars) - 1

ToUpperChar(c) == IF IsLower(c) THEN UpperChars[IndexOf(c, LowerChars)] ELSE c

ToLowerChar(c) == IF IsUpper(c) THEN LowerChars[IndexOf(c, UpperChars)] ELSE c

(* Optional values: Spark null / Python None, or a present value.          *)
NONE == [nil |-> TRUE, s |-> <<>>]

Some(x) == [nil |-> FALSE, s |-> x]

(* A Spark column function applied to a nullable value: null stays null.   *)
Lift(f(_), v) == IF v.nil THEN NONE ELSE Some(f(v.s))

RECURSIVE LTrim(_)
LTrim(s) == IF s # <<>> /\ Head(s) = " " THEN LTrim(Tail(s)) ELSE s

RECURSIVE RTrim(_)
RTrim(s) == IF s # <<>> /\ s[Len(s)] = " " THEN RTrim(SubSeq(s, 1, Len(s) - 1)) ELSE s

(* F.trim: removes the space characters (and only those) at both ends.     *)
trim(s) == RTrim(LTrim(s))

(* F.upper, F.lower                                                        *)
upper(s) == [i \in 1..Len(s) |-> ToUpperChar(s[i])]

lower(s) == [i \in 1..Len(s) |-> ToLowerChar(s[i])]

(* F.initcap: the string lower-cased, then the first character of the      *)
(* string and of every word after a space upper-cased.                     *)
initcap(s) ==
    [i \in 1..Len(s) |->
        IF i = 1 \/ s[i - 1] = " " THEN ToUpperChar(ToLowerChar(s[i]))
                                   ELSE ToLowerChar(s[i])]

NullText == <<"N","U","L","L">>

(* Step 4, one column value: when(upper(col) == "NULL", None).otherwise(col) *)
NullSentinel(v) == IF ~v.nil /\ upper(v.s) = NullText THEN NONE ELSE v

----------------------------------------------------------------------------
(* Rows and frames.  A frame is a multiset of rows: it maps the raw       *)
(* record a row came from to the row's present value and to the number of  *)
(* copies of it the frame holds.                                           *)

Columns == <<"order_id", "customer_name", "email", "country", "status",
             "product", "order_date", "quantity", "unit_price">>

EmptyDF == <<>>

MapRows(d, f(_)) == [r \in DOMAIN d |-> [d[r] EXCEPT !.row = f(@)]]

FilterRows(d, p(_)) == [r \in {x \in DOMAIN d : p(d[x].row)} |-> d[r]]

withColumn(row, c, v) == [f \in DOMAIN row \cup {c} |-> IF f = c THEN v ELSE row[f]]

(* Every column of the row rewritten by f (the loops of steps 3 and 4).    *)
AllColumns(row, f(_)) == [c \in DOMAIN row |-> f(row[c])]

(* Step 2 left out: every copy of every row stays.                         *)
keepDuplicates(d) == d

(* Step 2 removing every row that occurs more than once, copies and all.   *)
dropRepeated(d) == [r \in {x \in DOMAIN d : d[x].n = 1} |-> d[r]]

(* Step 2: raw_df.dropDuplicates(), on the frame as read (each row still   *)
(* the raw record): one copy of every distinct row.                        *)
dropDuplicates(d) == [r \in DOMAIN d |-> [d[r] EXCEPT !.n = 1]]

TrimValue(v) == Lift(trim, v)

(* Step 3 *)
TrimRow(row) == AllColumns(row, TrimValue)

(* Step 4 *)
NullRow(row) == AllColumns(row, NullSentinel)

(* Step 5 *)
CaseRow(row) ==
    [row EXCEPT !["customer_name"] = Lift(initcap, @),
                !["country"]       = Lift(initcap, @),
                !["status"]        = Lift(lower, @),
                !["email"]         = Lift(lower, @)]

----------------------------------------------------------------------------
(* Step 6: parse_date.  datetime.strptime compiles the format into a       *)
(* regular expression (a directive per %-letter, \s+ for a blank, the      *)
(* other characters literally, letters case-insensitively), takes the      *)
(* first match the backtracking search finds at the start of the text,     *)
(* fails when text remains after it, and then builds the date, which fails *)
(* for a day the month does not have and for year 0.                       *)

PySpaces == {" ", "\t", "\n", "\r"}

RECURSIVE PyLStrip(_)
PyLStrip(s) == IF s # <<>> /\ Head(s) \in PySpaces THEN PyLStrip(Tail(s)) ELSE s

RECURSIVE PyRStrip(_)
PyRStrip(s) ==
    IF s # <<>> /\ s[Len(s)] \in PySpaces THEN PyRStrip(SubSeq(s, 1, Len(s) - 1)) ELSE s

(* raw.strip() *)
strip(s) == PyRStrip(PyLStrip(s))

formats ==
   << <<"%","Y","-","%","m","-","%","d">>,
      <<"%","d","/","%","m","/","%","Y">>,
      <<"%","Y","/","%","m","/","%","d">>,
      <<"%","b"," ","%","d"," ","%","Y">>,
      <<"%","B"," ","%","d"," ","%","Y">>,
      <<"%","d","-","%","m","-","%","Y">> >>

MonthAbbr ==
   << <<"j","a","n">>,
      <<"f","e","b">>,
      <<"m","a","r">>,
      <<"a","p","r">>,
      <<"m","a","y">>,
      <<"j","u","n">>,
      <<"j","u","l">>,
      <<"a","u","g">>,
      <<"s","e","p">>,
      <<"o","c","t">>,
      <<"n","o","v">>,
      <<"d","e","c">> >>

(* The full month names, in the order strptime's expression tries them.    *)
MonthFull ==
   << [name |-> <<"s","e","p","t","e","m","b","e","r">>, m |-> 9],
      [name |-> <<"f","e","b","r","u","a","r","y">>, m |-> 2],
      [name |-> <<"n","o","v","e","m","b","e","r">>, m |-> 11],
      [name |-> <<"d","e","c","e","m","b","e","r">>, m |-> 12],
      [name |-> <<"j","a","n","u","a","r","y">>, m |-> 1],
      [name |-> <<"o","c","t","o","b","e","r">>, m |-> 10],
      [name |-> <<"a","u","g","u","s","t">>, m |-> 8],
      [name |-> <<"m","a","r","c","h">>, m |-> 3],
      [name |-> <<"a","p","r","i","l">>, m |-> 4],
      [name |-> <<"j","u","n","e">>, m |-> 6],
      [name |-> <<"j","u","l","y">>, m |-> 7],
      [name |-> <<"m","a","y">>, m |-> 5] >>

(* The character at position p, or "" past either end.                     *)
At(s, p) == IF p >= 1 /\ p <= Len(s) THEN s[p] ELSE ""

DV(c) == IF IsDigit(c) THEN DigitVal(c) ELSE 0

Alt(ok, key, val, len) == [ok |-> ok, key |-> key, val |-> val, len |-> len]

Chosen(alts) == SelectSeq(alts, LAMBDA a : a.ok)

(* %Y: \d\d\d\d *)
DirY(s, p) ==
    Chosen(<< Alt(\A k \in 0..3 : IsDigit(At(s, p + k)), "Y",
                  1000 * DV(At(s, p)) + 100 * DV(At(s, p + 1))
                    + 10 * DV(At(s, p + 2)) + DV(At(s, p + 3)), 4) >>)

(* %m: 1[0-2]|0[1-9]|[1-9] *)
DirM(s, p) ==
    LET a == At(s, p)
        b == At(s, p + 1)
    IN Chosen(<< Alt(a = "1" /\ b \in {"0", "1", "2"}, "m", 10 + DV(b), 2),
                 Alt(a = "0" /\ IsDigit(b) /\ b # "0", "m", DV(b), 2),
                 Alt(IsDigit(a) /\ a # "0", "m", DV(a), 1) >>)

(* %d: 3[0-1]|[1-2]\d|0[1-9]|[1-9]| [1-9] *)
DirD(s, p) ==
    LET a == At(s, p)
        b == At(s, p + 1)
    IN Chosen(<< Alt(a = "3" /\ b \in {"0", "1"}, "d", 30 + DV(b), 2),
                 Alt(a \in {"1", "2"} /\ IsDigit(b), "d", 10 * DV(a) + DV(b), 2),
                 Alt(a = "0" /\ IsDigit(b) /\ b # "0", "d", DV(b), 2),
                 Alt(IsDigit(a) /\ a # "0", "d", DV(a), 1),
                 Alt(a = " " /\ IsDigit(b) /\ b # "0", "d", DV(b), 2) >>)

Word(s, p, n) == IF p + n - 1 <= Len(s) THEN lower(SubSeq(s, p, p + n - 1)) ELSE <<>>

(* %b: jan|feb|...|dec *)
DirB(s, p) ==
    Chosen([k \in 1..12 |-> Alt(Word(s, p, 3) = MonthAbbr[k], "m", k, 3)])

(* %B: september|february|...|may *)
DirFullB(s, p) ==
    Chosen([k \in 1..12 |->
              Alt(Word(s, p, Len(MonthFull[k].name)) = MonthFull[k].name, "m",
                  MonthFull[k].m, Len(MonthFull[k].name))])

RECURSIVE SpaceRun(_, _)
SpaceRun(s, p) == IF At(s, p) \in PySpaces THEN 1 + SpaceRun(s, p + 1) ELSE 0

(* \s+: the longest run of blanks first, then the shorter ones.            *)
DirSpace(s, p) ==
    LET n == SpaceRun(s, p)
    IN [k \in 1..n |-> Alt(TRUE, "ws", 0, n + 1 - k)]

Directive(c, s, p) ==
    CASE c = "Y" -> DirY(s, p)
      [] c = "m" -> DirM(s, p)
      [] c = "d" -> DirD(s, p)
      [] c = "b" -> DirB(s, p)
      [] c = "B" -> DirFullB(s, p)

RECURSIVE Match(_, _, _, _, _), TryAlts(_, _, _, _, _, _, _)
(* The first match of fmt[i..] on s from position p: <<m>>, or <<>>.       *)
Match(fmt, i, s, p, acc) ==
    IF i > Len(fmt) THEN << [acc EXCEPT !["end"] = p] >>
    ELSE IF fmt[i] = "%" THEN TryAlts(Directive(fmt[i + 1], s, p), 1, fmt, i + 2, s, p, acc)
    ELSE IF fmt[i] = " " THEN TryAlts(DirSpace(s, p), 1, fmt, i + 1, s, p, acc)
    ELSE IF At(s, p) = fmt[i] THEN Match(fmt, i + 1, s, p + 1, acc)
    ELSE <<>>

TryAlts(alts, k, fmt, i, s, p, acc) ==
    IF k > Len(alts) THEN <<>>
    ELSE LET r == Match(fmt, i, s, p + alts[k].len,
                        [acc EXCEPT ![alts[k].key] = alts[k].val])
         IN IF r # <<>> THEN r ELSE TryAlts(alts, k + 1, fmt, i, s, p, acc)

IsLeap(y) == (y % 4 = 0 /\ y % 100 # 0) \/ y % 400 = 0

DaysInMonth(y, m) ==
    IF m = 2 THEN (IF IsLeap(y) THEN 29 ELSE 28)
    ELSE IF m \in {4, 6, 9, 11} THEN 30 ELSE 31

(* datetime.strptime(s, fmt): <<[Y, m, d]>>, or <<>> for a ValueError.     *)
strptime(s, fmt) ==
    LET r == Match(fmt, 1, s, 1, [Y |-> 0, m |-> 0, d |-> 0, ws |-> 0, end |-> 0])
    IN IF r = <<>> THEN <<>>
       ELSE IF r[1].end # Len(s) + 1 THEN <<>>
       ELSE IF r[1].Y < 1 \/ r[1].d > DaysInMonth(r[1].Y, r[1].m) THEN <<>>
       ELSE r

Pad2(n) == << DigitChars[((n \div 10) % 10) + 1], DigitChars[(n % 10) + 1] >>

RECURSIVE YearText(_)
(* %Y of the C library's strftime on Linux, which CPython hands the format *)
(* to: the year in decimal with no leading zeros (999, not 0999).          *)
YearText(y) ==
    IF y < 10 THEN <<DigitChars[y + 1]>>
    ELSE YearText(y \div 10) \o <<DigitChars[(y % 10) + 1]>>

(* .strftime("%Y-%m-%d") *)
strftime(t) == YearText(t.Y) \o <<"-">> \o Pad2(t.m) \o <<"-">> \o Pad2(t.d)

RECURSIVE TryFormats(_, _)
TryFormats(s, k) ==
    IF k > Len(formats) THEN NONE
    ELSE LET r == strptime(s, formats[k])
         IN IF r # <<>> THEN Some(strftime(r[1])) ELSE TryFormats(s, k + 1)

parse_date(raw) == IF raw.nil THEN NONE ELSE TryFormats(strip(raw.s), 1)

(* Step 6 *)
DateRow(row) == [row EXCEPT !["order_date"] = parse_date(@)]

----------------------------------------------------------------------------
(* Step 7: the mandatory-field filter.                                     *)

NotBlank(v) == ~v.nil /\ v.s # <<>>

(* The filter of step 7 without its last conjunct.                         *)
MandatoryWithoutCountry(row) ==
    /\ NotBlank(row["order_id"])
    /\ NotBlank(row["customer_name"])
    /\ NotBlank(row["product"])
    /\ ~row["order_date"].nil

Mandatory(row) ==
    /\ NotBlank(row["order_id"])
    /\ NotBlank(row["customer_name"])
    /\ NotBlank(row["product"])
    /\ ~row["order_date"].nil
    /\ NotBlank(row["country"])

----------------------------------------------------------------------------
(* Step 8: email.isNull() | email.rlike(email_regex), with                 *)
(*   email_regex = ^[a-zA-Z0-9._%+\-]+@[a-zA-Z0-9.\-]+\.[a-zA-Z]{2,}$      *)

LocalChar(c) == IsLetter(c) \/ IsDigit(c) \/ c \in {".", "_", "%", "+", "-"}

DomainChar(c) == IsLetter(c) \/ IsDigit(c) \/ c \in {".", "-"}

AllIn(s, lo, hi, P(_)) == \A k \in lo..hi : P(s[k])

(* $ of java.util.regex: the end of the text, or just before a line        *)
(* terminator that ends it.                                                *)
Dollar(s, p) ==
    \/ p = Len(s) + 1
    \/ p = Len(s) /\ s[p] \in {"\n", "\r"}
    \/ p = Len(s) - 1 /\ s[p] = "\r" /\ s[p + 1] = "\n"

email_regex(s) ==
    \E i \in 2..Len(s) : \E j \in (i + 2)..Len(s) : \E e \in (j + 2)..Len(s) :
        /\ s[i] = "@"
        /\ AllIn(s, 1, i - 1, LocalChar)
        /\ AllIn(s, i + 1, j - 1, DomainChar)
        /\ s[j] = "."
        /\ AllIn(s, j + 1, e, IsLetter)
        /\ Dollar(s, e + 1)

(* The filter of step 8 without its isNull() disjunct.                     *)
EmailRequired(row) == ~row["email"].nil /\ email_regex(row["email"].s)

EmailOk(row) == row["email"].nil \/ email_regex(row["email"].s)

----------------------------------------------------------------------------
(* Step 9: the casts and the range filter.                                 *)

(* The range of IntegerType. *)
IntMax == 2147483647

IntMin == (-IntMax) - 1

RECURSIVE AllDigits(_, _, _)
AllDigits(s, lo, hi) == lo > hi \/ (IsDigit(s[lo]) /\ AllDigits(s, lo + 1, hi))

(* UTF8String.toInt accumulates the digits s[lo..hi] as a negative 32-bit  *)
(* number and gives up when the next digit would leave the range: the      *)
(* result, or 1 for giving up.                                             *)
RECURSIVE NegDigits(_, _, _, _)
NegDigits(s, lo, hi, acc) ==
    IF lo > hi THEN acc
    ELSE LET d == DigitVal(s[lo])
         IN IF acc < (IntMin + d) \div 10 + (IF (IntMin + d) % 10 = 0 THEN 0 ELSE 1)
            THEN 1
            ELSE NegDigits(s, lo + 1, hi, 10 * acc - d)

(* The digits s[lo..hi] as a natural number.                               *)
RECURSIVE Number(_, _, _)
Number(s, lo, hi) == IF lo > hi THEN 0 ELSE 10 * Number(s, lo, hi - 1) + DigitVal(s[hi])

(* The position of the first "." in s[lo..hi], or hi + 1.                  *)
RECURSIVE DotAt(_, _, _)
DotAt(s, lo, hi) == IF lo > hi \/ s[lo] = "." THEN lo ELSE DotAt(s, lo + 1, hi)

(* cast(IntegerType) of a string: an optional sign, digits, and an         *)
(* optional "." followed by digits only, which are dropped; null for any   *)
(* other text and for a value outside the 32-bit range.                    *)
CastIntText(s) ==
    LET signed == s # <<>> /\ s[1] \in {"-", "+"}
        neg    == s # <<>> /\ s[1] = "-"
        lo     == IF signed THEN 2 ELSE 1
        dot    == DotAt(s, lo, Len(s))
    IN IF s = <<>> \/ lo > Len(s) THEN NONE
       ELSE IF ~AllDigits(s, lo, dot - 1) \/ ~AllDigits(s, dot + 1, Len(s)) THEN NONE
       ELSE LET acc == NegDigits(s, lo, dot - 1, 0)
            IN IF acc = 1 \/ (~neg /\ acc = IntMin) THEN NONE
               ELSE Some(IF neg THEN acc ELSE -acc)

CastInt(v) == IF v.nil THEN NONE ELSE CastIntText(v.s)

(* A double is held as the decimal numeral it was read from, m / 10^sc     *)
(* with its sign, in lowest terms of ten: the value is the IEEE-754 double *)
(* nearest to it.  NaN is a value of its own.                              *)
RECURSIVE Pow10(_)
Pow10(k) == IF k = 0 THEN 1 ELSE 10 * Pow10(k - 1)

RECURSIVE Decimal(_, _, _)
Decimal(neg, m, sc) ==
    IF sc > 0 /\ m % 10 = 0 THEN Decimal(neg, m \div 10, sc - 1)
    ELSE [kind |-> "num", neg |-> neg, m |-> m, sc |-> sc]

NaN == [kind |-> "nan", neg |-> FALSE, m |-> 0, sc |-> 0]

NaNText == <<"N","a","N">>

(* cast(DoubleType) of a string, for the texts of the model: a signed      *)
(* decimal numeral (digits, ".", digits, one side of the "." may be empty) *)
(* and NaN; null for any other text.                                       *)
CastDoubleText(s) ==
    LET signed == s # <<>> /\ s[1] \in {"-", "+"}
        neg    == s # <<>> /\ s[1] = "-"
        lo     == IF signed THEN 2 ELSE 1
        dot    == DotAt(s, lo, Len(s))
        ip     == Number(s, lo, dot - 1)
        fp     == Number(s, dot + 1, Len(s))
        fl     == IF dot < Len(s) THEN Len(s) - dot ELSE 0
    IN IF SubSeq(s, lo, Len(s)) = NaNText THEN Some(NaN)
       ELSE IF ~AllDigits(s, lo, dot - 1) \/ ~AllDigits(s, dot + 1, Len(s)) THEN NONE
       ELSE IF (dot - lo) + fl = 0 THEN NONE
       ELSE Some(Decimal(neg, ip * Pow10(fl) + fp, fl))

CastDouble(v) == IF v.nil THEN NONE ELSE CastDoubleText(v.s)

CastRow(row) ==
    [row EXCEPT !["quantity"] = CastInt(@), !["unit_price"] = CastDouble(@)]

QuantityMax == 10000

(* Spark orders NaN above every number, so NaN > 0.0 holds.                *)
GtZero(x) == x.kind = "nan" \/ (~x.neg /\ x.m > 0)

RangeOk(row) ==
    /\ ~row["quantity"].nil
    /\ row["quantity"].s > 0
    /\ row["quantity"].s <= QuantityMax
    /\ ~row["unit_price"].nil
    /\ GtZero(row["unit_price"].s)

----------------------------------------------------------------------------
(* Step 10: order_total = F.round(quantity * unit_price, 2).  The product  *)
(* is an IEEE-754 double product; F.round of a double takes the shortest   *)
(* decimal numeral that reads back as that double and rounds it half-up.   *)
(* A binary64 value is held here as m / 2^s with 2^52 <= m < 2^53, and m   *)
(* as a number of several digits in base 2^14, the least significant       *)
(* first, since m does not fit the model's 32-bit integers.                *)

MantissaBits == 53

LimbBase == 2^14

RECURSIVE BitLen(_)
BitLen(n) == IF n = 0 THEN 0 ELSE 1 + BitLen(n \div 2)

RECURSIVE BigNorm(_)
BigNorm(x) ==
    IF x # <<>> /\ x[Len(x)] = 0 THEN BigNorm(SubSeq(x, 1, Len(x) - 1)) ELSE x

BigFromInt(n) == BigNorm(<< n % LimbBase, (n \div LimbBase) % LimbBase, n \div (LimbBase * LimbBase) >>)

BigBitLen(x) == IF x = <<>> THEN 0 ELSE 14 * (Len(x) - 1) + BitLen(x[Len(x)])

(* x * k + carry, for 0 <= k <= LimbBase *)
RECURSIVE BigMul(_, _, _, _)
BigMul(x, i, k, carry) ==
    IF i > Len(x) THEN (IF carry = 0 THEN <<>> ELSE <<carry>>)
    ELSE LET v == x[i] * k + carry
         IN <<v % LimbBase>> \o BigMul(x, i + 1, k, v \div LimbBase)

(* x * 2^n *)
BigShift(x, n) ==
    [i \in 1..(n \div 14) |-> 0] \o BigMul(x, 1, 2^(n % 14), 0)

(* The quotient digits x[1..i] \div d with the remainder, for d < 2^17.    *)
RECURSIVE BigDiv(_, _, _, _)
BigDiv(x, i, d, rem) ==
    IF i = 0 THEN [q |-> <<>>, r |-> rem]
    ELSE LET v    == rem * LimbBase + x[i]
             rest == BigDiv(x, i - 1, d, v % d)
         IN [q |-> Append(rest.q, v \div d), r |-> rest.r]

BigDivMod(x, d) ==
    LET res == BigDiv(x, Len(x), d, 0) IN [q |-> BigNorm(res.q), r |-> res.r]

BigInc(x) == BigMul(x, 1, 1, 1)

BigIsOdd(x) == x # <<>> /\ x[1] % 2 = 1

BigGeq(x, y) ==
    \/ Len(x) > Len(y)
    \/ /\ Len(x) = Len(y)
       /\ LET diff == {k \in 1..Len(x) : x[k] # y[k]}
          IN diff = {} \/ (LET k == CHOOSE k \in diff : \A j \in diff : k >= j
                           IN x[k] > y[k])

(* Round to nearest, ties to even: q the quotient of the division by d     *)
(* that kept 53 bits, r its remainder, s the scale of q.                   *)
RoundNearestEven(q, r, d, s) ==
    LET up == 2 * r > d \/ (2 * r = d /\ BigIsOdd(q))
        m  == IF up THEN BigInc(q) ELSE q
    IN IF BigBitLen(m) > MantissaBits
       THEN [m |-> BigDivMod(m, 2).q, s |-> s - 1]
       ELSE [m |-> m, s |-> s]

(* The double nearest to a / b, for integers a > 0 and 0 < b < 2^17.       *)
ToDouble(a, b) ==
    LET s0  == MantissaBits - (BitLen(a) - BitLen(b))
        d0  == BigDivMod(BigShift(BigFromInt(a), s0), b)
        s   == IF BigBitLen(d0.q) > MantissaBits THEN s0 - 1 ELSE s0
        d   == IF s = s0 THEN d0 ELSE BigDivMod(BigShift(BigFromInt(a), s), b)
    IN RoundNearestEven(d.q, d.r, b, s)

(* The double product of the integer q, 1 <= q < 2^14, and the double x.   *)
Times(q, x) ==
    LET pr == BigMul(x.m, 1, q, 0)
        n  == BigBitLen(pr) - MantissaBits
        d  == BigDivMod(pr, 2^n)
    IN RoundNearestEven(d.q, d.r, 2^n, x.s - n)

GeqDouble(x, y) == x.s < y.s \/ (x.s = y.s /\ BigGeq(x.m, y.m))

(* Rounding of the exact decimal product, a tie going to the even cent. *)
HalfEvenCents(q, p) ==
    LET exact == q * p.m
        unit  == IF p.sc <= 2 THEN 1 ELSE Pow10(p.sc - 2)
        n     == IF p.sc <= 2 THEN exact * Pow10(2 - p.sc) ELSE exact \div unit
        rem   == IF p.sc <= 2 THEN 0 ELSE exact % unit
    IN IF 2 * rem > unit \/ (2 * rem = unit /\ n % 2 = 1) THEN n + 1 ELSE n

(* The cents of F.round(q * p, 2) for the integer q >= 1 and the positive  *)
(* double p read from m / 10^sc.  With n the whole cents of the exact      *)
(* product, the numeral of the double product is at or above the tie       *)
(* (n + 1/2) / 100 exactly when the double product is at or above the      *)
(* double nearest to that tie, and only then half-up rounding gives n + 1. *)
RoundedCents(q, p) ==
    LET exact == q * p.m
        n     == IF p.sc <= 2 THEN exact * Pow10(2 - p.sc) ELSE exact \div Pow10(p.sc - 2)
        prod  == Times(q, ToDouble(p.m, Pow10(p.sc)))
        tie   == ToDouble(2 * n + 1, 200)
    IN IF GeqDouble(prod, tie) THEN n + 1 ELSE n

order_total(q, p) ==
    IF q.nil \/ p.nil THEN NONE
    ELSE IF p.s.kind = "nan" THEN Some(NaN)
    ELSE IF p.s.m = 0 \/ q.s = 0 THEN Some(Decimal(FALSE, 0, 0))
    ELSE LET a == IF q.s < 0 THEN -q.s ELSE q.s
         IN Some(Decimal((q.s < 0) # p.s.neg, RoundedCents(a, p.s), 2))

PIPELINE_VERSION == <<"1", ".", "0", ".", "0">>

(* The number of model clock ticks in a second.                            *)
TicksPerSecond == 2

(* The instant rendered without its seconds.                               *)
utcnow_minutes(t) == t \div (60 * TicksPerSecond)

(* datetime.utcnow().strftime("%Y-%m-%d %H:%M:%S"): the instant cut to     *)
(* whole seconds; the count of seconds stands for its rendering.           *)
utcnow_text(t) == t \div TicksPerSecond

DeriveRow(row, text) ==
    withColumn(withColumn(withColumn(row,
        "order_total", order_total(row["quantity"], row["unit_price"])),
        "cleaned_at", Some(text)),
        "pipeline_version", Some(PIPELINE_VERSION))

----------------------------------------------------------------------------
(* The raw frames the job is run on.  Base is a row that passes every      *)
(* check.  RichRecords are the rows that differ from it in one column (or  *)
(* in quantity and unit_price together), run one row at a time;            *)
(* CoreRecords are a few rows run together, with repetitions: two good     *)
(* rows, rows that differ from Base only in blanks, letter case or date    *)
(* format, and rows that fail one check each.                              *)

Raw(id, name, email, country, status, product, date, qty, price) ==
    [order_id |-> id, customer_name |-> name, email |-> email, country |-> country,
     status |-> status, product |-> product, order_date |-> date, quantity |-> qty,
     unit_price |-> price]

Base ==
    Raw(Some(<<"A","1">>),
        Some(<<"a","n","n"," ","l","e","e">>),
        Some(<<"a","@","b",".","c","o">>),
        Some(<<"u","k">>),
        Some(<<"N","E","W">>),
        Some(<<"p","e","n">>),
        Some(<<"2","0","2","4","-","0","1","-","1","5">>),
        Some(<<"3">>),
        Some(<<"9",".","9","9","5">>))

Other ==
    Raw(Some(<<"B","2">>),
        Some(<<"b","o">>),
        Some(<<"N","U","L","L">>),
        Some(<<"f","r">>),
        Some(<<"P","a","i","d">>),
        Some(<<"i","n","k">>),
        Some(<<"J","a","n"," ","1","8"," ","2","0","2","4">>),
        Some(<<"2">>),
        Some(<<"1","0">>))

OrderIdTexts ==
    { NONE,
      Some(<<>>),
      Some(<<" ">>),
      Some(<<"N","U","L","L">>),
      Some(<<"n","u","l","l">>),
      Some(<<" ","N","u","l","l"," ">>),
      Some(<<" ","A","1"," ">>),
      Some(<<"n","u","l","l","x">>) }

NameTexts ==
    { NONE,
      Some(<<>>),
      Some(<<"N","U","L","L">>),
      Some(<<" ","A","N","N"," "," ","L","E","E">>),
      Some(<<"a","N","N"," ","l","e","e">>),
      Some(<<" "," ">>) }

ProductTexts ==
    { NONE,
      Some(<<>>),
      Some(<<"n","u","l","l">>),
      Some(<<" ","p","e","n">>),
      Some(<<"P","e","n">>) }

CountryTexts ==
    { NONE,
      Some(<<>>),
      Some(<<"n","u","L","L">>),
      Some(<<"U","K">>),
      Some(<<" ","u"," ","k">>),
      Some(<<" ">>) }

StatusTexts ==
    { NONE,
      Some(<<"n","e","w">>),
      Some(<<" ","N","e","w"," ">>),
      Some(<<"N","U","L","L">>),
      Some(<<>>) }

EmailTexts ==
    { NONE,
      Some(<<"N","U","L","L">>),
      Some(<<>>),
      Some(<<"a","@","b">>),
      Some(<<"b","a","d","-","e","m","a","i","l">>),
      Some(<<"A","@","B",".","C","O">>),
      Some(<<" ","a","@","b",".","c","o"," ">>),
      Some(<<"a","@","b",".","c">>),
      Some(<<"a","@","b",".","c","o",".">>),
      Some(<<"@","b",".","c","o">>),
      Some(<<"a","@",".","c","o">>),
      Some(<<"a",".","b","+","c","@","d","-","e",".","f","g",".","h","i">>),
      Some(<<"a","@","b",".","c","0">>),
      Some(<<"a"," ","b","@","c",".","d","e">>),
      Some(<<"a","@","@","b",".","c","o">>),
      Some(<<"a","_","%","@","b","-",".","c","d">>),
      Some(<<"x","@","y",".","z","w">>) }

DateTexts ==
    { NONE,
      Some(<<"N","U","L","L">>),
      Some(<<>>),
      Some(<<"1","5","/","0","1","/","2","0","2","4">>),
      Some(<<"2","0","2","4","/","0","1","/","2","3">>),
      Some(<<"J","a","n"," ","1","8"," ","2","0","2","4">>),
      Some(<<"J","a","n","u","a","r","y"," ","1","8"," ","2","0","2","4">>),
      Some(<<"1","8","-","0","1","-","2","0","2","4">>),
      Some(<<"3","1","/","0","2","/","2","0","2","4">>),
      Some(<<"n","o","t","-","a","-","d","a","t","e">>),
      Some(<<"2","0","2","4","-","0","2","-","2","9">>),
      Some(<<"2","0","2","3","-","0","2","-","2","9">>),
      Some(<<"2","0","2","4","-","1","-","5">>),
      Some(<<"5","-","1","-","2","0","2","4">>),
      Some(<<"2","0","2","4","-","1","3","-","0","1">>),
      Some(<<"0","1","/","1","3","/","2","0","2","4">>),
      Some(<<"1","2","/","1","1","/","2","0","2","4">>),
      Some(<<"j","a","n"," ","1","8"," ","2","0","2","4">>),
      Some(<<"S","e","p","t"," ","1","8"," ","2","0","2","4">>),
      Some(<<"M","a","y"," ","5"," ","2","0","2","4">>),
      Some(<<"2","0","2","4","-","0","1","-","1","5","x">>),
      Some(<<"2","0","2","4","-","0","1","-","3","2">>),
      Some(<<"0","0","0","0","-","0","1","-","0","1">>),
      Some(<<"0","9","9","9","-","0","1","-","0","2">>),
      Some(<<"1","5","/","0","1","/","0","0","2","4">>),
      Some(<<"1","9","0","0","-","0","2","-","2","9">>),
      Some(<<"2","0","0","0","-","0","2","-","2","9">>),
      Some(<<"2","0","2","4","0","1","1","5">>),
      Some(<<"\t","2","0","2","4","-","0","1","-","1","6">>),
      Some(<<"J","a","n"," "," ","1","8"," "," ","2","0","2","4">>),
      Some(<<"2","0","2","4","-","0","1","-"," ","5">>),
      Some(<<" ","2","0","2","4","-","0","1","-","1","7"," ">>),
      Some(<<"3","1","-","1","2","-","1","9","9","9">>),
      Some(<<"s","e","p","t","e","m","b","e","r"," ","3","0"," ","2","0","2","4">>),
      Some(<<"S","e","p","t","e","m","b","e","r"," ","3","1"," ","2","0","2","4">>),
      Some(<<"3","1","/","0","4","/","2","0","2","4">>),
      Some(<<"2","0","2","4","-","0","1","-","0","0">>) }

QuantityTexts ==
    { NONE,
      Some(<<"N","U","L","L">>),
      Some(<<>>),
      Some(<<"0">>),
      Some(<<"-","5">>),
      Some(<<"1">>),
      Some(<<"1","0","0","0","0">>),
      Some(<<"1","0","0","0","1">>),
      Some(<<"a","b","c">>),
      Some(<<"3",".","7">>),
      Some(<<" ","7"," ">>),
      Some(<<"+","4">>),
      Some(<<"1","e","3">>),
      Some(<<"0","0","7">>),
      Some(<<"0",".","9">>),
      Some(<<"4","2","9","4","9","6","7","2","9","7">>),
      Some(<<"2","1","4","7","4","8","3","6","4","8">>),
      Some(<<".">>),
      Some(<<"-">>) }

PriceTexts ==
    { NONE,
      Some(<<"N","U","L","L">>),
      Some(<<>>),
      Some(<<"0">>),
      Some(<<"-","1",".","5">>),
      Some(<<"a","b","c">>),
      Some(<<"1",".","0","0","5">>),
      Some(<<"0",".","1","2","5">>),
      Some(<<"N","a","N">>),
      Some(<<"1","0">>),
      Some(<<"1","0",".","0">>),
      Some(<<".","5">>),
      Some(<<"0",".","0","0">>),
      Some(<<"5",".">>),
      Some(<<"+","2",".","5","0">>),
      Some(<<"0",".","0","0","4">>) }

(* quantity and unit_price together *)
AmountTexts ==
    { <<Some(<<"3">>), Some(<<"1",".","0","0","5">>)>>,
      <<Some(<<"1">>), Some(<<"1",".","0","0","5">>)>>,
      <<Some(<<"7">>), Some(<<"0",".","0","0","5">>)>>,
      <<Some(<<"3">>), Some(<<"0",".","3","3","5">>)>>,
      <<Some(<<"5">>), Some(<<"1",".","0","0","1">>)>>,
      <<Some(<<"2">>), Some(<<"0",".","1","2","5">>)>>,
      <<Some(<<"1">>), Some(<<"0",".","1","2","5">>)>>,
      <<Some(<<"1","0","0","0","0">>), Some(<<"9","9",".","9","9","9">>)>>,
      <<Some(<<"1">>), Some(<<"2",".","6","7","5">>)>>,
      <<Some(<<"2">>), Some(<<"N","a","N">>)>>,
      <<Some(<<"2",".","9">>), Some(<<"0",".","3","3","5">>)>>,
      <<Some(<<"0">>), Some(<<"N","a","N">>)>> }

RichRecords ==
    {[Base EXCEPT !["order_id"] = v] : v \in OrderIdTexts}
      \cup {[Base EXCEPT !["customer_name"] = v] : v \in NameTexts}
      \cup {[Base EXCEPT !["product"] = v] : v \in ProductTexts}
      \cup {[Base EXCEPT !["country"] = v] : v \in CountryTexts}
      \cup {[Base EXCEPT !["status"] = v] : v \in StatusTexts}
      \cup {[Base EXCEPT !["email"] = v] : v \in EmailTexts}
      \cup {[Base EXCEPT !["order_date"] = v] : v \in DateTexts}
      \cup {[Base EXCEPT !["quantity"] = v] : v \in QuantityTexts}
      \cup {[Base EXCEPT !["unit_price"] = v] : v \in PriceTexts}
      \cup {[Base EXCEPT !["quantity"] = a[1], !["unit_price"] = a[2]] : a \in AmountTexts}

OrderIdPadded == Some(<<" ","A","1"," ">>)

NameUpper == Some(<<"A","N","N"," ","L","E","E">>)

DateSlashed == Some(<<"1","5","/","0","1","/","2","0","2","4">>)

QuantityNegative == Some(<<"-","5">>)

EmailBad == Some(<<"b","a","d","-","e","m","a","i","l">>)

DateUnparseable == Some(<<"n","o","t","-","a","-","d","a","t","e">>)

CountryNullText == Some(<<" ","n","u","l","l"," ">>)

CoreRecords ==
    { Base,
      Other,
      [Base EXCEPT !["order_id"] = OrderIdPadded],
      [Base EXCEPT !["customer_name"] = NameUpper],
      [Base EXCEPT !["order_date"] = DateSlashed],
      [Base EXCEPT !["quantity"] = QuantityNegative],
      [Base EXCEPT !["email"] = EmailBad],
      [Base EXCEPT !["order_date"] = DateUnparseable],
      [Base EXCEPT !["country"] = CountryNullText] }

(* The most rows of a frame of CoreRecords.                                *)
MaxRows == 3

(* The last tick of the model clock.                                       *)
MaxClock == 2

AddRow(d, r) ==
    IF r \in DOMAIN d THEN [d EXCEPT ![r].n = @ + 1]
    ELSE [x \in DOMAIN d \cup {r} |-> IF x = r THEN [n |-> 1, row |-> r] ELSE d[x]]

RECURSIVE FramesOfSize(_, _)
FramesOfSize(S, k) ==
    IF k = 0 THEN {EmptyDF}
    ELSE {AddRow(d, r) : d \in FramesOfSize(S, k - 1), r \in S}

RawInputs ==
    UNION {FramesOfSize(CoreRecords, k) : k \in 0..MaxRows}
      \cup FramesOfSize(RichRecords, 1)

NoStamp == NONE

----------------------------------------------------------------------------
(* The job.  Step 1 (the read of raw_df) is the initial state; steps 2 to  *)
(* 10 rewrite df in turn; step 12 writes it.  The wall clock runs on its   *)
(* own while the job runs.                                                 *)

Steps == <<"step2", "step3", "step4", "step5", "step6", "step7", "step8",
           "step9", "step10", "step12", "done">>

NextStep(p) == Steps[IndexOf(p, Steps) + 1]

(* What each step makes of the frame it is given.                          *)
Frame3(d) == MapRows(d, TrimRow)

Frame4(d) == MapRows(d, NullRow)

Frame5(d) == MapRows(d, CaseRow)

Frame6(d) == MapRows(d, DateRow)

Frame7(d) == FilterRows(d, Mandatory)

Frame8(d) == FilterRows(d, EmailOk)

Frame9(d) == FilterRows(MapRows(d, CastRow), RangeOk)

Frame10(d, text) == MapRows(d, LAMBDA row : DeriveRow(row, text))

Step2 ==
    /\ pc = "step2"
    /\ df' = dropDuplicates(raw_df)
    /\ pc' = NextStep(pc)
    /\ UNCHANGED <<raw_df, out, now, started, stamp, stage>>

Step3 ==
    /\ pc = "step3"
    /\ df' = Frame3(df)
    /\ pc' = NextStep(pc)
    /\ UNCHANGED <<raw_df, out, now, started, stamp, stage>>

Step4 ==
    /\ pc = "step4"
    /\ df' = Frame4(df)
    /\ pc' = NextStep(pc)
    /\ UNCHANGED <<raw_df, out, now, started, stamp, stage>>

Step5 ==
    /\ pc = "step5"
    /\ df' = Frame5(df)
    /\ pc' = NextStep(pc)
    /\ UNCHANGED <<raw_df, out, now, started, stamp, stage>>

Step6 ==
    /\ pc = "step6"
    /\ df' = Frame6(df)
    /\ pc' = NextStep(pc)
    /\ UNCHANGED <<raw_df, out, now, started, stamp, stage>>

Step7 ==
    /\ pc = "step7"
    /\ df' = Frame7(df)
    /\ pc' = NextStep(pc)
    /\ UNCHANGED <<raw_df, out, now, started, stamp, stage>>

Step8 ==
    /\ pc = "step8"
    /\ df' = Frame8(df)
    /\ pc' = NextStep(pc)
    /\ UNCHANGED <<raw_df, out, now, started, stamp, stage>>

Step9 ==
    /\ pc = "step9"
    /\ df' = Frame9(df)
    /\ pc' = NextStep(pc)
    /\ UNCHANGED <<raw_df, out, now, started, stamp, stage>>

(* Line 187 reads the clock once, on the driver, when step 10 is reached;  *)
(* the text it renders is the literal every row receives.                  *)
Step10 ==
    /\ pc = "step10"
    /\ stamp' = Some(utcnow_text(now))
    /\ df' = Frame10(df, utcnow_text(now))
    /\ pc' = NextStep(pc)
    /\ UNCHANGED <<raw_df, out, now, started, stage>>

Step12 ==
    /\ pc = "step12"
    /\ out' = df
    /\ pc' = NextStep(pc)
    /\ UNCHANGED <<raw_df, df, now, started, stamp, stage>>

Tick ==
    /\ now < MaxClock
    /\ pc # "done"
    /\ now' = now + 1
    /\ UNCHANGED <<raw_df, df, out, pc, started, stamp, stage>>

Init ==
    /\ raw_df \in RawInputs
    /\ df = EmptyDF
    /\ out = EmptyDF
    /\ pc = "step2"
    /\ now = 0
    /\ started = 0
    /\ stamp = NoStamp
    /\ stage = <<>>

Next ==
    \/ Step2 \/ Step3 \/ Step4 \/ Step5 \/ Step6 \/ Step7 \/ Step8 \/ Step9
    \/ Step10 \/ Step12 \/ Tick

Spec == Init /\ [][Next]_vars

(* The frame the job writes for the raw frame d when line 187 renders text.*)
Pipeline(d, text) ==
    Frame10(Frame9(Frame8(Frame7(Frame6(Frame5(Frame4(Frame3(dropDuplicates(d)))))))),
            text)

----------------------------------------------------------------------------
(* The same job as Spark runs it: the transformations are lazy, and when   *)
(* the frame is written the rows left by dropDuplicates are taken through  *)
(* steps 3 to 10 by tasks, each row on its own and in any order relative   *)
(* to the other rows.  stage[r] is the stage the row from r is due for.    *)

Stages == <<"trim", "null", "case", "date", "mandatory", "email", "cast", "derive">>

(* One stage applied to one row: <<the row after it>>, or <<>> when the    *)
(* stage filters the row out.                                              *)
RowStage(k, row, text) ==
    CASE Stages[k] = "trim"      -> <<TrimRow(row)>>
      [] Stages[k] = "null"      -> <<NullRow(row)>>
      [] Stages[k] = "case"      -> <<CaseRow(row)>>
      [] Stages[k] = "date"      -> <<DateRow(row)>>
      [] Stages[k] = "mandatory" -> IF Mandatory(row) THEN <<row>> ELSE <<>>
      [] Stages[k] = "email"     -> IF EmailOk(row) THEN <<row>> ELSE <<>>
      [] Stages[k] = "cast"      -> IF RangeOk(CastRow(row)) THEN <<CastRow(row)>> ELSE <<>>
      [] Stages[k] = "derive"    -> <<DeriveRow(row, text)>>

Without(f, r) == [x \in DOMAIN f \ {r} |-> f[x]]

Shuffle ==
    /\ pc = "shuffle"
    /\ df' = dropDuplicates(raw_df)
    /\ stage' = [r \in DOMAIN raw_df |-> 1]
    /\ pc' = "tasks"
    /\ UNCHANGED <<raw_df, out, now, started, stamp>>

(* A task whose filter stages throw away, with the row they reject, every  *)
(* other row that is due for the same stage.                               *)
TaskSharingFilter(r) ==
    /\ pc = "tasks"
    /\ stage[r] <= Len(Stages)
    /\ LET res  == RowStage(stage[r], df[r].row, stamp.s)
           same == {x \in DOMAIN stage : stage[x] = stage[r]}
       IN IF res = <<>>
          THEN /\ df' = [x \in DOMAIN df \ same |-> df[x]]
               /\ stage' = [x \in DOMAIN stage \ same |-> stage[x]]
          ELSE /\ df' = [df EXCEPT ![r].row = res[1]]
               /\ stage' = [stage EXCEPT ![r] = @ + 1]
    /\ UNCHANGED <<raw_df, out, pc, now, started, stamp>>

Task(r) ==
    /\ pc = "tasks"
    /\ stage[r] <= Len(Stages)
    /\ LET res == RowStage(stage[r], df[r].row, stamp.s)
       IN IF res = <<>>
          THEN df' = Without(df, r) /\ stage' = Without(stage, r)
          ELSE df' = [df EXCEPT ![r].row = res[1]] /\ stage' = [stage EXCEPT ![r] = @ + 1]
    /\ UNCHANGED <<raw_df, out, pc, now, started, stamp>>

Write ==
    /\ pc = "tasks"
    /\ \A r \in DOMAIN stage : stage[r] > Len(Stages)
    /\ out' = df
    /\ pc' = "done"
    /\ UNCHANGED <<raw_df, df, now, started, stamp, stage>>

(* The most rows of a frame given to the tasks.                            *)
MaxTaskRows == 2

TaskRecords ==
    { Base, Other,
      [Base EXCEPT !["order_id"] = OrderIdPadded],
      [Base EXCEPT !["order_date"] = DateUnparseable],
      [Base EXCEPT !["email"] = EmailBad] }

InitTasks ==
    /\ raw_df \in UNION {FramesOfSize(TaskRecords, k) : k \in 0..MaxTaskRows}
    /\ df = EmptyDF
    /\ out = EmptyDF
    /\ pc = "shuffle"
    /\ now = 0
    /\ started = 0
    /\ stamp \in {Some(utcnow_text(t)) : t \in 0..MaxClock}
    /\ stage = <<>>

NextTasks == Shuffle \/ (\E r \in DOMAIN stage : Task(r)) \/ Write

SpecTasks == InitTasks /\ [][NextTasks]_vars

----------------------------------------------------------------------------
(* Properties of the job.  rawrow below is a raw record, the key under    *)
(* which a frame holds the row that came from it.                          *)

MandatoryColumns == {"order_id", "customer_name", "product", "country"}

(* A raw value that is no value: null, blank, or the text NULL in any      *)
(* letter case with spaces around it.                                      *)
Missing(v) == v.nil \/ trim(v.s) = <<>> \/ upper(trim(v.s)) = NullText

Present(v) == ~v.nil /\ v.s # <<>>

(* C1: every record written has order_id, customer_name, product, country  *)
(* and order_date present and non-empty; a raw record in which order_id,   *)
(* customer_name, product or country is absent, blank after trimming or    *)
(* the text NULL (any case, trimmed), or whose order_date did not parse,   *)
(* is never written.                                                       *)
MandatoryFieldsPresent ==
    /\ \A r \in DOMAIN out :
          \A c \in MandatoryColumns \cup {"order_date"} : Present(out[r].row[c])
    /\ \A r \in DOMAIN raw_df :
          (\/ \E c \in MandatoryColumns : Missing(r[c])
           \/ Missing(r["order_date"])
           \/ parse_date(Some(trim(r["order_date"].s))).nil)
          => r \notin DOMAIN out

(* A finished run that wrote a row and left out a row whose country was    *)
(* the text null with spaces around it.                                    *)
MandatoryFieldRejected ==
    /\ pc = "done"
    /\ Base \in DOMAIN out
    /\ \E r \in DOMAIN raw_df :
          /\ ~r["country"].nil
          /\ upper(trim(r["country"].s)) = NullText
          /\ r \notin DOMAIN out

(* C5: when step 2 has run, a record that the raw frame holds k >= 1       *)
(* times is held exactly once, unchanged; no record of the raw frame is    *)
(* missing and none is added, so an empty raw frame gives an empty frame.  *)
DedupSound ==
    pc = "step3" =>
        /\ \A r \in DOMAIN raw_df :
              raw_df[r].n >= 1 => r \in DOMAIN df /\ df[r].n = 1 /\ df[r].row = r
        /\ DOMAIN df \subseteq DOMAIN raw_df
        /\ (raw_df = EmptyDF => df = EmptyDF)

(* Step 2 has run on a frame holding one record twice and another record  *)
(* once.                                                                   *)
DedupCollapsed ==
    /\ pc = "step3"
    /\ \E r, q \in DOMAIN raw_df :
          /\ r # q
          /\ raw_df[r].n = 2 /\ df[r].n = 1 /\ df[r].row = r
          /\ raw_df[q].n = 1 /\ df[q].n = 1

----------------------------------------------------------------------------
(* The six date formats read field by field, as the specification lists    *)
(* them, to say what parse_date has to return.                             *)

RECURSIVE Fields(_, _)
(* s cut at every occurrence of the character c *)
Fields(s, c) ==
    IF \E i \in 1..Len(s) : s[i] = c
    THEN LET i == CHOOSE k \in 1..Len(s) : s[k] = c /\ \A j \in 1..(k - 1) : s[j] # c
         IN <<SubSeq(s, 1, i - 1)>> \o Fields(SubSeq(s, i + 1, Len(s)), c)
    ELSE <<s>>

RECURSIVE Words(_)
(* s cut at its runs of blanks *)
Words(s) ==
    IF s = <<>> THEN <<>>
    ELSE IF Head(s) \in PySpaces THEN Words(Tail(s))
    ELSE LET n == CHOOSE k \in 1..Len(s) :
                      /\ \A j \in 1..k : s[j] \notin PySpaces
                      /\ (k = Len(s) \/ s[k + 1] \in PySpaces)
         IN <<SubSeq(s, 1, n)>> \o Words(SubSeq(s, n + 1, Len(s)))

NoField == 0 - 1

(* YYYY *)
YearField(f) ==
    IF Len(f) = 4 /\ \A i \in 1..4 : IsDigit(f[i])
    THEN 1000 * DigitVal(f[1]) + 100 * DigitVal(f[2]) + 10 * DigitVal(f[3]) + DigitVal(f[4])
    ELSE NoField

TwoDigits(f) ==
    IF Len(f) = 1 /\ IsDigit(f[1]) THEN DigitVal(f[1])
    ELSE IF Len(f) = 2 /\ IsDigit(f[1]) /\ IsDigit(f[2])
         THEN 10 * DigitVal(f[1]) + DigitVal(f[2])
    ELSE NoField

(* MM: 1 to 12, one digit or two *)
MonthField(f) == IF TwoDigits(f) \in 1..12 THEN TwoDigits(f) ELSE NoField

(* DD: 1 to 31, one digit or two, a blank allowed in place of a leading 0  *)
DayField(f) ==
    IF TwoDigits(f) \in 1..31 THEN TwoDigits(f)
    ELSE IF Len(f) = 2 /\ f[1] = " " /\ TwoDigits(Tail(f)) \in 1..9 THEN TwoDigits(Tail(f))
    ELSE NoField

Letters(s, n) == [i \in 1..n |-> s[i]]

(* The month names, January first.                                         *)
NameLetters ==
    << <<"j","a","n","u","a","r","y">>, <<"f","e","b","r","u","a","r","y">>,
       <<"m","a","r","c","h">>, <<"a","p","r","i","l">>, <<"m","a","y">>,
       <<"j","u","n","e">>, <<"j","u","l","y">>, <<"a","u","g","u","s","t">>,
       <<"s","e","p","t","e","m","b","e","r">>, <<"o","c","t","o","b","e","r">>,
       <<"n","o","v","e","m","b","e","r">>, <<"d","e","c","e","m","b","e","r">> >>

(* The month a full name (short = FALSE) or a 3-letter name (short = TRUE) *)
(* stands for, letter case ignored.                                        *)
NameField(f, short) ==
    LET want(k) == IF short THEN Letters(NameLetters[k], 3) ELSE NameLetters[k]
        hit     == {k \in 1..12 : lower(f) = want(k)}
    IN IF hit = {} THEN NoField ELSE CHOOSE k \in hit : TRUE

(* What format k reads in s: <<year, month, day>>, NoField where a field   *)
(* does not fit.                                                           *)
Reading(k, s) ==
    LET h == Fields(s, "-")
        l == Fields(s, "/")
        w == Words(s)
        no == <<NoField, NoField, NoField>>
    IN CASE k = 1 -> IF Len(h) = 3 THEN <<YearField(h[1]), MonthField(h[2]), DayField(h[3])>> ELSE no
         [] k = 2 -> IF Len(l) = 3 THEN <<YearField(l[3]), MonthField(l[2]), DayField(l[1])>> ELSE no
         [] k = 3 -> IF Len(l) = 3 THEN <<YearField(l[1]), MonthField(l[2]), DayField(l[3])>> ELSE no
         [] k = 4 -> IF Len(w) = 3 THEN <<YearField(w[3]), NameField(w[1], TRUE), DayField(w[2])>> ELSE no
         [] k = 5 -> IF Len(w) = 3 THEN <<YearField(w[3]), NameField(w[1], FALSE), DayField(w[2])>> ELSE no
         [] k = 6 -> IF Len(h) = 3 THEN <<YearField(h[3]), MonthField(h[2]), DayField(h[1])>> ELSE no

MonthLengths == <<31, 28, 31, 30, 31, 30, 31, 31, 30, 31, 30, 31>>

LeapYear(y) == y % 4 = 0 /\ (y % 100 # 0 \/ y % 400 = 0)

(* A date of the calendar (datetime has no year 0).                        *)
CalendarDate(t) ==
    /\ t[1] >= 1
    /\ t[2] \in 1..12
    /\ t[3] >= 1
    /\ t[3] <= (IF t[2] = 2 /\ LeapYear(t[1]) THEN 29 ELSE MonthLengths[t[2]])

Digits(n, width) == [i \in 1..width |-> DigitChars[((n \div Pow10(width - i)) % 10) + 1]]

(* YYYY-MM-DD *)
Canonical(t) == Digits(t[1], 4) \o <<"-">> \o Digits(t[2], 2) \o <<"-">> \o Digits(t[3], 2)

(* The canonical text of the first format that reads all of the trimmed    *)
(* input as a date of the calendar; no value when there is none.           *)
DateExpected(v) ==
    LET s  == strip(v.s)
        ok == {k \in 1..6 : CalendarDate(Reading(k, s))}
        k1 == CHOOSE k \in ok : \A j \in ok : k <= j
    IN IF v.nil \/ ok = {} THEN NONE ELSE Some(Canonical(Reading(k1, s)))

Iso(y, m, d) == Some(Canonical(<<y, m, d>>))

(* The date text of a raw record as step 6 finds it, after steps 3 and 4.  *)
DateGiven(r) == NullSentinel(TrimValue(r["order_date"]))

DateShortYear == Some(<<"0","9","9","9","-","0","1","-","0","2">>)

(* C4 as stated: when step 6 has run every row has the canonical           *)
(* YYYY-MM-DD text of the first of the six formats, in their fixed order,  *)
(* that reads the whole trimmed input as a valid calendar date, and no     *)
(* value for a null input, for text that fits no format and for an invalid *)
(* calendar date; the examples of the specification come out as listed,    *)
(* and the ISO format reads no DD-MM-YYYY text.                            *)
DateCanonical ==
    pc = "step7" =>
        /\ \A r \in DOMAIN df : df[r].row["order_date"] = DateExpected(DateGiven(r))
        /\ parse_date(Base["order_date"]) = Iso(2024, 1, 15)
        /\ parse_date(DateSlashed) = Iso(2024, 1, 15)
        /\ parse_date(Other["order_date"]) = Iso(2024, 1, 18)
        /\ parse_date(Some(<<"3","1","/","0","2","/","2","0","2","4">>)) = NONE
        /\ parse_date(DateUnparseable) = NONE
        /\ parse_date(NONE) = NONE
        /\ parse_date(Some(<<"1","8","-","0","1","-","2","0","2","4">>)) = Iso(2024, 1, 18)
        /\ strptime(<<"1","8","-","0","1","-","2","0","2","4">>, formats[1]) = <<>>

(* The text with the zeros before its first hyphen-delimited field removed *)
(* (one digit of the year always stays).                                   *)
RECURSIVE BareYear(_)
BareYear(s) == IF Len(s) > 1 /\ s[1] = "0" /\ s[2] # "-" THEN BareYear(Tail(s)) ELSE s

(* C4, what step 6 does: the same, except that the year of the text        *)
(* returned has no leading zeros, so that a date in a year before 1000     *)
(* comes out shorter than YYYY-MM-DD.                                      *)
DateCanonicalBareYear ==
    pc = "step7" =>
        \A r \in DOMAIN df :
            df[r].row["order_date"] = Lift(BareYear, DateExpected(DateGiven(r)))

(* Step 6 has run on the row dated 0999-01-02 and has made its date        *)
(* 999-01-02.                                                              *)
ShortYearReturned ==
    /\ pc = "step7"
    /\ \E r \in DOMAIN df :
          /\ r["order_date"] = DateShortYear
          /\ df[r].row["order_date"] = Some(<<"9","9","9","-","0","1","-","0","2">>)

----------------------------------------------------------------------------
(* A number above zero (NaN is none).                                      *)
PositiveNumber(x) == x.kind = "num" /\ ~x.neg /\ x.m > 0

(* C2: every record written has an integer quantity above 0 and at most    *)
(* 10000 and a unit_price that is a number above 0; a row whose quantity   *)
(* or unit_price is null, is not a number or is out of range is removed by *)
(* step 9, and every other row is kept by it.                              *)
AmountsInRange ==
    \A r \in DOMAIN out :
        /\ ~out[r].row["quantity"].nil
        /\ out[r].row["quantity"].s \in 1..QuantityMax
        /\ ~out[r].row["unit_price"].nil
        /\ PositiveNumber(out[r].row["unit_price"].s)

(* C2, what step 9 does: the same, except that a unit_price that casts to  *)
(* NaN counts as above 0 and its row is kept.                              *)
AmountsInRangeOrNaN ==
    /\ [](\A r \in DOMAIN out :
             /\ ~out[r].row["quantity"].nil
             /\ out[r].row["quantity"].s \in 1..QuantityMax
             /\ ~out[r].row["unit_price"].nil
             /\ \/ PositiveNumber(out[r].row["unit_price"].s)
                \/ out[r].row["unit_price"].s = NaN)
    /\ [][pc = "step9" /\ pc' = "step10" =>
             \A r \in DOMAIN df :
                 LET q == CastInt(df[r].row["quantity"])
                     p == CastDouble(df[r].row["unit_price"])
                 IN r \in DOMAIN df' <=>
                        /\ ~q.nil /\ q.s \in 1..QuantityMax
                        /\ ~p.nil /\ (PositiveNumber(p.s) \/ p.s = NaN)]_vars

(* A finished run that wrote the row whose unit_price was the text NaN.    *)
NaNPriceWritten ==
    /\ pc = "done"
    /\ \E r \in DOMAIN out :
          /\ r["unit_price"] = Some(NaNText)
          /\ out[r].row["unit_price"] = Some(NaN)
          /\ out[r].row["order_total"] = Some(NaN)

(* C9: as the module docstring's item 8 has it, every row whose order_id,  *)
(* customer_name or email is null or empty is dropped, so that no record   *)
(* written has a null or empty email.                                      *)
EmailAlwaysPresent ==
    \A r \in DOMAIN out :
        /\ Present(out[r].row["order_id"])
        /\ Present(out[r].row["customer_name"])
        /\ Present(out[r].row["email"])

(* C9, what steps 7 and 8 do: every record written has order_id and        *)
(* customer_name present and non-empty, and an email that is null or       *)
(* non-empty.                                                              *)
EmailPresentOrNull ==
    \A r \in DOMAIN out :
        /\ Present(out[r].row["order_id"])
        /\ Present(out[r].row["customer_name"])
        /\ (out[r].row["email"].nil \/ Present(out[r].row["email"]))

(* A finished run that wrote a row read with no email at all.              *)
NullEmailWritten ==
    /\ pc = "done"
    /\ \E r \in DOMAIN out : r["email"].nil /\ out[r].row["email"].nil

(* C10 as stated: the records written are pairwise different, whatever     *)
(* the raw frame.                                                          *)
NoIdenticalOutputRecords ==
    \A r \in DOMAIN out :
        /\ out[r].n = 1
        /\ \A q \in DOMAIN out : q # r => out[q].row # out[r].row

(* C10: the frame written holds exactly one record for every distinct raw  *)
(* record that passes the checks, however often the raw frame held it;     *)
(* raw records that differ, be it only in blanks, letter case or date      *)
(* format, are written one record each, alike or not.                      *)
OneRecordPerRawRecord ==
    /\ \A r \in DOMAIN out : r \in DOMAIN raw_df /\ out[r].n = 1
    /\ pc = "done" =>
          \A r \in DOMAIN raw_df :
              r \in DOMAIN out <=> Pipeline(AddRow(EmptyDF, r), stamp.s) # EmptyDF

(* A finished run whose raw frame held one record twice and the same       *)
(* record with blanks around its order_id once, and that wrote two records *)
(* equal in every field.                                                   *)
TwinRecordsWritten ==
    /\ pc = "done"
    /\ \E r, q \in DOMAIN out :
          /\ r # q
          /\ raw_df[r].n = 2
          /\ out[r].n = 1
          /\ q = [r EXCEPT !["order_id"] = OrderIdPadded]
          /\ out[q].row = out[r].row

SecondOf(t) == CHOOSE s \in 0..t : s * TicksPerSecond <= t /\ t < (s + 1) * TicksPerSecond

Abs(n) == IF n < 0 THEN 0 - n ELSE n

(* The cents of an order_total. *)
Cents(x) == x.m * Pow10(2 - x.sc)

TasksOrderIndependent ==
    pc = "done" => out = Pipeline(raw_df, stamp.s)

(* A finished run of the tasks on two distinct raw records, one written    *)
(* and one filtered out.                                                   *)
TasksFinished ==
    /\ pc = "done"
    /\ Cardinality(DOMAIN raw_df) = 2
    /\ Cardinality(DOMAIN out) = 1

====
